---- MODULE Spec2Model ----
(***************************************************************************)
(* throwOnConsole.ts: console.assert / console.error / console.warn are    *)
(* replaced by interceptors that format their arguments, test the message  *)
(* against an ignore list and either forward to the original handler or    *)
(* throw an Error.                                                         *)
(*                                                                         *)
(* JavaScript strings are sequences of one-character strings, so that      *)
(* includes(), match(), replaceAll() and util.format() are computed        *)
(* character by character.  Indices in the definitions are the 0-based     *)
(* indices of the JavaScript code; s[i + 1] is the character at index i.   *)
(***************************************************************************)
EXTENDS Integers, Sequences, FiniteSets, TLC

(***************************************************************************)
(* Bounds of the model.                                                    *)
(***************************************************************************)
\* the longest argument list of a call on a channel
MaxArgs == 2
\* the longest ignore list of the ignore-list specification
MaxRules == 2
\* the most lines of a message of the message-transform specification
MaxLines == 2

(***************************************************************************)
(* Strings.                                                                *)
(***************************************************************************)
\* String.prototype.slice(from, to), 0-based, `to` exclusive
Slice(s, from, to) == SubSeq(s, from + 1, to)

\* the character at 0-based index i, "" past the end
CharAt(s, i) == IF i >= 0 /\ i < Len(s) THEN s[i + 1] ELSE ""

IsDigit(c) == c \in {"0", "1", "2", "3", "4", "5", "6", "7", "8", "9"}

\* the line terminators that `.` of a regular expression does not match
IsLineTerminator(c) == c \in {"\n", "\r"}

IsWhiteSpace(c) == c \in {" ", "\n", "\r", "\t"}

\* whether `sub` occurs in s at 0-based index i
OccursAt(sub, s, i) ==
    /\ i >= 0
    /\ i + Len(sub) <= Len(s)
    /\ \A k \in 1..Len(sub) : s[i + k] = sub[k]

\* String.prototype.includes
Includes(s, sub) == \E i \in 0..Len(s) : OccursAt(sub, s, i)

DigitChars == <<"0", "1", "2", "3", "4", "5", "6", "7", "8", "9">>

RECURSIVE NatToString(_)
NatToString(n) ==
    IF n < 10 THEN <<DigitChars[n + 1]>>
    ELSE NatToString(n \div 10) \o <<DigitChars[(n % 10) + 1]>>

\* the decimal text of an integer, as String(n) gives it
IntToString(n) == IF n < 0 THEN <<"-">> \o NatToString(0 - n) ELSE NatToString(n)

DigitValue(c) == CHOOSE d \in 0..9 : DigitChars[d + 1] = c

RECURSIVE DigitsToNat(_)
DigitsToNat(s) ==
    IF s = <<>> THEN 0
    ELSE 10 * DigitsToNat(SubSeq(s, 1, Len(s) - 1)) + DigitValue(s[Len(s)])

RECURSIVE TrimLeft(_)
TrimLeft(s) == IF s # <<>> /\ IsWhiteSpace(s[1]) THEN TrimLeft(Tail(s)) ELSE s

RECURSIVE TrimRight(_)
TrimRight(s) ==
    IF s # <<>> /\ IsWhiteSpace(s[Len(s)]) THEN TrimRight(SubSeq(s, 1, Len(s) - 1)) ELSE s

Trim(s) == TrimRight(TrimLeft(s))

NaNText == <<"N", "a", "N">>

(***************************************************************************)
(* JavaScript values that are passed to a channel: strings, integers,      *)
(* booleans and undefined.                                                 *)
(***************************************************************************)
Str(s) == [t |-> "string", s |-> s, n |-> 0]
Num(n) == [t |-> "number", s |-> <<>>, n |-> n]
Bool(b) == [t |-> "boolean", s |-> <<>>, n |-> IF b THEN 1 ELSE 0]
Undefined == [t |-> "undefined", s |-> <<>>, n |-> 0]

\* ToBoolean(v): what `!condition` of the assert interceptor negates
Truthy(v) ==
    CASE v.t = "string" -> v.s # <<>>
      [] v.t = "number" -> v.n # 0
      [] v.t = "boolean" -> v.n = 1
      [] OTHER -> FALSE

\* String(v), which is also what inspect(v) prints for a non-string primitive
ToText(v) ==
    CASE v.t = "string" -> v.s
      [] v.t = "number" -> IntToString(v.n)
      [] v.t = "boolean" -> IF v.n = 1 THEN <<"t", "r", "u", "e">>
                            ELSE <<"f", "a", "l", "s", "e">>
      [] OTHER -> <<"u", "n", "d", "e", "f", "i", "n", "e", "d">>

\* the text of Number(v): the digits of a numeric value, NaN otherwise
NumberText(v) ==
    CASE v.t = "number" -> IntToString(v.n)
      [] v.t = "boolean" -> IntToString(v.n)
      [] v.t = "string" ->
            LET body == Trim(v.s) IN
            IF body = <<>> THEN <<"0">>
            ELSE IF \A k \in 1..Len(body) : IsDigit(body[k])
                 THEN NatToString(DigitsToNat(body))
                 ELSE NaNText
      [] OTHER -> NaNText

(***************************************************************************)
(* util.format(...data), line 58.  The directives that are computed are    *)
(* %s, %d, %c and %%; the format strings that the specifications draw      *)
(* hold no other directive (%i %f %j %o %O).                               *)
(***************************************************************************)
\* the text a directive puts in place of itself for the argument it consumes
Directive(c, v) ==
    CASE c = "s" -> ToText(v)
      [] c = "d" -> NumberText(v)
      [] OTHER -> <<>>

IsDirective(c) == c \in {"s", "d", "c"}

\* the loop over the characters of the first argument: i is the index that is
\* looked at, a the index of the last argument consumed, lastPos the index
\* from which the first argument is still to be copied
RECURSIVE FormatLoop(_, _, _, _, _, _)
RECURSIVE FormatPercent(_, _, _, _, _, _, _)
FormatLoop(first, args, i, a, str, lastPos) ==
    IF i >= Len(first) - 1 THEN [a |-> a, str |-> str, lastPos |-> lastPos]
    ELSE IF CharAt(first, i) # "%" THEN FormatLoop(first, args, i + 1, a, str, lastPos)
    ELSE FormatPercent(first, args, i + 1, a, str, lastPos, CharAt(first, i + 1))

\* the body of the loop at a `%`; j is the index of nextChar, the character
\* after the `%`
FormatPercent(first, args, j, a, str, lastPos, nextChar) ==
    IF a + 1 # Len(args) /\ IsDirective(nextChar)
    THEN FormatLoop(first, args, j + 1, a + 1,
                    (IF lastPos # j - 1 THEN str \o Slice(first, lastPos, j - 1) ELSE str)
                        \o Directive(nextChar, args[a + 2]),
                    j + 1)
    ELSE IF nextChar = "%"
    THEN FormatLoop(first, args, j + 1, a, str \o Slice(first, lastPos, j), j + 1)
    ELSE FormatLoop(first, args, j + 1, a, str, lastPos)

\* the arguments from index a on, each after a space, the first after `sep`
RECURSIVE FormatRest(_, _, _)
FormatRest(args, a, sep) ==
    IF a >= Len(args) THEN <<>>
    ELSE sep \o ToText(args[a + 1]) \o FormatRest(args, a + 1, <<" ">>)

\* what follows the loop, which ended as r: when a directive or a `%%` was
\* replaced, the rest of the first argument and the arguments not consumed
FormatTail(first, args, r) ==
    IF r.lastPos # 0
    THEN r.str
         \o (IF r.lastPos < Len(first) THEN Slice(first, r.lastPos, Len(first)) ELSE <<>>)
         \o FormatRest(args, r.a + 1, <<" ">>)
    ELSE FormatRest(args, 0, <<>>)

Format(args) ==
    IF args # <<>> /\ args[1].t = "string"
    THEN IF Len(args) = 1 THEN args[1].s
         ELSE FormatTail(args[1].s, args, FormatLoop(args[1].s, args, 0, 0, <<>>, 0))
    ELSE FormatRest(args, 0, <<>>)

(***************************************************************************)
(* The message of the thrown Error, lines 30-36:                           *)
(*   message.replaceAll(/ {4}at .* \(.*:\d+:\d+\)/g, match => `${match}.`) *)
(***************************************************************************)
FramePrefix == <<" ", " ", " ", " ", "a", "t", " ">>

SetMax(S) == CHOOSE m \in S : \A k \in S : k <= m

SetMin(S) == CHOOSE m \in S : \A k \in S : m <= k

\* the index of the first line terminator at or after index i, or the length
LineEnd(s, i) == SetMin({k \in i..Len(s) : k = Len(s) \/ IsLineTerminator(CharAt(s, k))})

\* the index after the run of digits that starts at index i (i when there is none)
DigitsEnd(s, i) == SetMin({e \in i..Len(s) : ~IsDigit(CharAt(s, e))})

\* `:\d+` at index q: the index after it, or -1.  q = -1 stands for a part
\* before it that did not match.
ColonDigitsEnd(s, q) ==
    IF q = -1 \/ CharAt(s, q) # ":" \/ ~IsDigit(CharAt(s, q + 1)) THEN -1
    ELSE DigitsEnd(s, q + 1)

\* `\)` at index q: the index after it, or -1
ParenEnd(s, q) == IF q = -1 \/ CharAt(s, q) # ")" THEN -1 ELSE q + 1

\* `:\d+:\d+\)` at index q: the index after the `)`, or -1.  A `\d+` that gave
\* back a digit would be followed by a digit, never by `:` or `)`.
TailEnd(s, q) == ParenEnd(s, ColonDigitsEnd(s, ColonDigitsEnd(s, q)))

\* the ends of the second `.*`, which starts at index y0, that let the rest match
YEnds(s, y0) == {y \in y0..LineEnd(s, y0) : TailEnd(s, y) # -1}

\* the ends of the first `.*`, which starts at index x0, that let the rest match
XEnds(s, x0) ==
    {x \in x0..LineEnd(s, x0) :
        /\ CharAt(s, x) = " "
        /\ CharAt(s, x + 1) = "("
        /\ YEnds(s, x + 2) # {}}

\* the end of the match whose first `.*` may end at the indices xs.  Both `.*`
\* are greedy: the first takes the longest text for which the rest matches,
\* then the second does.
GreedyEnd(s, xs) ==
    IF xs = {} THEN -1 ELSE TailEnd(s, SetMax(YEnds(s, SetMax(xs) + 2)))

\* the regular expression tried at index p: the index after the match, or -1
FrameMatchEnd(s, p) ==
    IF ~OccursAt(FramePrefix, s, p) THEN -1
    ELSE GreedyEnd(s, XEnds(s, p + Len(FramePrefix)))

\* the index of the leftmost match among the indices where there is one, or -1
Leftmost(starts) == IF starts = {} THEN -1 ELSE SetMin(starts)

\* the index of the leftmost match at or after index from, or -1
NextFrameMatch(s, from) == Leftmost({p \in from..Len(s) : FrameMatchEnd(s, p) # -1})

\* the text from index `from` on with `.` put after every match
RECURSIVE ReplaceFrames(_, _)
RECURSIVE ReplaceFrom(_, _, _)
RECURSIVE ReplaceMatch(_, _, _)
ReplaceFrames(s, from) == ReplaceFrom(s, from, NextFrameMatch(s, from))

\* the same, the next match being at index p (-1: there is none)
ReplaceFrom(s, from, p) ==
    IF p = -1 THEN Slice(s, from, Len(s))
    ELSE ReplaceMatch(s, from, FrameMatchEnd(s, p))

\* the same, the next match ending before index e
ReplaceMatch(s, from, e) == Slice(s, from, e) \o <<".">> \o ReplaceFrames(s, e)

\* the mutant of MarkFrames that puts the `.` at the end of the message
MarkFramesAtEnd(message) ==
    IF NextFrameMatch(message, 0) = -1 THEN message ELSE message \o <<".">>

\* const msg = message.replaceAll(...)
MarkFrames(message) == ReplaceFrames(message, 0)

(***************************************************************************)
(* Options (lines 3-17).  An ignore rule is a string or a RegExp object; a *)
(* RegExp is its source text (literal characters), its global and sticky   *)
(* flags and its lastIndex property, which match() reads and writes.       *)
(***************************************************************************)
StringRule(src) ==
    [kind |-> "string", src |-> src, global |-> FALSE, sticky |-> FALSE, lastIndex |-> 0]

RegExpRule(src, global, sticky) ==
    [kind |-> "regexp", src |-> src, global |-> global, sticky |-> sticky, lastIndex |-> 0]

\* an options object; fullStackTrace is "true", "false" or "undefined" (omitted)
Options(hasIgnore, ignore, fullStackTrace) ==
    [hasIgnore |-> hasIgnore, ignore |-> ignore, fullStackTrace |-> fullStackTrace]

\* throwOnConsoleAssert(), throwOnConsoleError(), throwOnConsoleWarn(): `options = {}`
DefaultOptions == Options(FALSE, <<>>, "undefined")

\* message.match(msgToIgnore) of a RegExp: whether the result is truthy, and
\* the lastIndex the RegExp is left with.  A global RegExp is matched from
\* index 0 on and ends with lastIndex 0; a sticky one that is not global is
\* tried at its lastIndex only and keeps the end of the match there; one that
\* is neither is searched from index 0 and its lastIndex is not written.
RegExpMatch(rule, message) ==
    IF rule.global
    THEN [matched |-> IF rule.sticky THEN OccursAt(rule.src, message, 0)
                      ELSE Includes(message, rule.src),
          lastIndex |-> 0]
    ELSE IF rule.sticky
    THEN IF rule.lastIndex <= Len(message) /\ OccursAt(rule.src, message, rule.lastIndex)
         THEN [matched |-> TRUE, lastIndex |-> rule.lastIndex + Len(rule.src)]
         ELSE [matched |-> FALSE, lastIndex |-> 0]
    ELSE [matched |-> Includes(message, rule.src), lastIndex |-> rule.lastIndex]

\* typeof msgToIgnore === 'string' ? message.includes(msgToIgnore)
\*                                 : message.match(msgToIgnore)
RuleMatch(rule, message) ==
    IF rule.kind = "string"
    THEN [matched |-> Includes(message, rule.src), lastIndex |-> rule.lastIndex]
    ELSE RegExpMatch(rule, message)

\* the rules with the lastIndex of rule k as the match r left it
Touched(ignore, k, r) == [ignore EXCEPT ![k] = [@ EXCEPT !.lastIndex = r.lastIndex]]

\* ignore.some(...): the rules are asked in order up to the first that
\* matches; `ignore` of the result holds the rules as the calls left them
RECURSIVE SomeFrom(_, _, _)
RECURSIVE SomeStep(_, _, _, _)
SomeFrom(ignore, message, k) ==
    IF k > Len(ignore) THEN [found |-> FALSE, ignore |-> ignore]
    ELSE SomeStep(ignore, message, k, RuleMatch(ignore[k], message))

\* the same, r being the answer of rule k
SomeStep(ignore, message, k, r) ==
    IF r.matched THEN [found |-> TRUE, ignore |-> Touched(ignore, k, r)]
    ELSE SomeFrom(Touched(ignore, k, r), message, k + 1)

\* the mutant of Some that asks the first rule only
SomeFirstOnly(ignore, message) ==
    IF ignore = <<>> THEN [found |-> FALSE, ignore |-> ignore]
    ELSE [found |-> RuleMatch(ignore[1], message).matched,
          ignore |-> Touched(ignore, 1, RuleMatch(ignore[1], message))]

Some(ignore, message) == SomeFrom(ignore, message, 1)

\* the object formatMessage returns, `some` being what ignore.some(...) gave;
\* `ignore` holds the rules of the options as the call left them
FormatResult(options, message, some) ==
    [shouldNotThrow |-> some.found,
     message |-> message,
     ignore |-> IF options.hasIgnore THEN some.ignore ELSE options.ignore]

\* lines 57 and 60-65: const ignore = options.ignore ?? []; return {...}
Sift(options, message) ==
    FormatResult(options, message,
                 Some(IF options.hasIgnore THEN options.ignore ELSE <<>>, message))

\* formatMessage(options, ...data), lines 56-66
FormatMessage(options, data) == Sift(options, Format(data))

(***************************************************************************)
(* Functions and stack frames.  A function is named by its kind, the       *)
(* channel it belongs to and, for an interceptor, the number that tells    *)
(* the function objects made by different install calls apart.             *)
(***************************************************************************)
Channels == {"assert", "error", "warn"}

Fn(kind, ch, id) == [kind |-> kind, ch |-> ch, id |-> id]

\* the handlers the console has before the module is loaded
Native(ch) == Fn("native", ch, 0)
FnThrowError == Fn("throwError", "none", 0)
\* the code that calls console.assert, console.error or console.warn
FnCaller == Fn("caller", "none", 0)
FnUndefined == Fn("undefined", "none", 0)

\* a handler: a function and, for an interceptor, the options it closes over
Handler(fn, options) == [fn |-> fn, options |-> options]
NativeHandler(ch) == Handler(Native(ch), DefaultOptions)
NoHandler == Handler(FnUndefined, DefaultOptions)

\* Error.captureStackTrace(e, constructorOpt): the frames from the caller of
\* captureStackTrace down; with constructorOpt, the frames down to and with
\* the topmost frame of that function are left out, which leaves none when
\* the function is not on the stack
CaptureStackTrace(stack, constructorOpt) ==
    IF constructorOpt = FnUndefined THEN stack
    ELSE IF \E k \in 1..Len(stack) : stack[k] = constructorOpt
    THEN LET top == CHOOSE k \in 1..Len(stack) :
                        /\ stack[k] = constructorOpt
                        /\ \A m \in 1..(k - 1) : stack[m] # constructorOpt
         IN SubSeq(stack, top + 1, Len(stack))
    ELSE <<>>

NoError == [message |-> <<>>, stack |-> <<>>]

\* how a function ends: by a throw of `error`, or by a normal return
Thrown(error, excluded) == [thrown |-> TRUE, error |-> error, excluded |-> excluded]
Returned == [thrown |-> FALSE, error |-> NoError, excluded |-> FnUndefined]

\* the mutant of ThrowError that leaves out the frames when fullStackTrace is set
ThrowErrorFlagSwapped(message, overriddenConsoleMethod, options, stack) ==
    LET excluded == IF options.fullStackTrace = "true" THEN overriddenConsoleMethod
                    ELSE FnUndefined
    IN Thrown([message |-> MarkFrames(message),
               stack |-> CaptureStackTrace(stack, excluded)], excluded)

\* the mutant of ThrowError that returns instead of throwing
ThrowErrorReturns(message, overriddenConsoleMethod, options, stack) == Returned

\* the mutant of ThrowError that throws the message as it was formatted
ThrowErrorUnmarked(message, overriddenConsoleMethod, options, stack) ==
    LET excluded == IF options.fullStackTrace = "true" THEN FnUndefined
                    ELSE overriddenConsoleMethod
    IN Thrown([message |-> message, stack |-> CaptureStackTrace(stack, excluded)],
              excluded)

\* throwError(message, overriddenConsoleMethod, options), lines 21-50; `stack`
\* is the call stack inside throwError, the top frame first
ThrowError(message, overriddenConsoleMethod, options, stack) ==
    LET fullStackTrace == IF options.fullStackTrace = "undefined" THEN "false"
                          ELSE options.fullStackTrace
        msg == MarkFrames(message)
        excluded == IF fullStackTrace = "true" THEN FnUndefined
                    ELSE overriddenConsoleMethod
    IN Thrown([message |-> msg, stack |-> CaptureStackTrace(stack, excluded)], excluded)

(***************************************************************************)
(* The state.                                                              *)
(*   console                the handler in each of console.assert,         *)
(*                          console.error and console.warn                 *)
(*   originalConsoleAssert, originalConsoleError, originalConsoleWarn      *)
(*                          the module's constants of lines 68, 91, 114    *)
(*   kept                   a reference to an interceptor that the calling *)
(*                          code read from the console and still holds     *)
(*   last                   the operation that the calling code just made  *)
(*                          (an install, a restore or a call of a channel) *)
(*                          and how it ended                               *)
(*   installed              for each channel, the interceptor that the     *)
(*                          most recent throwOnConsoleX(options) made, as  *)
(*                          it was made; none at first and since the most  *)
(*                          recent restoreConsoleX()                       *)
(***************************************************************************)
VARIABLES console, originalConsoleAssert, originalConsoleError, originalConsoleWarn,
          kept, last, installed

vars == <<console, originalConsoleAssert, originalConsoleError, originalConsoleWarn,
          kept, last, installed>>

originals == <<originalConsoleAssert, originalConsoleError, originalConsoleWarn>>

NoCall ==
    [op |-> "none", ch |-> "none", via |-> "none", callee |-> NoHandler, args |-> <<>>,
     completion |-> Returned, calls |-> <<>>, replaced |-> NoHandler]

\* an install or a restore on channel ch that put a handler in place of
\* `replaced` and returned
Done(op, ch, replaced) == [NoCall EXCEPT !.op = op, !.ch = ch, !.replaced = replaced]

\* a call of `fn` with `args` made by an interceptor
Invocation(fn, args) == [fn |-> fn, args |-> args]

\* what running a handler did: how it ended, the calls it made of other
\* handlers, and the ignore rules of its options as it left them
Ran(completion, calls, ignore) ==
    [completion |-> completion, calls |-> calls, ignore |-> ignore]

\* the call stack inside throwError when the interceptor `self` called it
StackIn(self) == <<FnThrowError, self.fn, FnCaller>>

\* the first argument of console.assert, and the arguments after it
Condition(args) == IF args = <<>> THEN Undefined ELSE args[1]
Data(args) == IF args = <<>> THEN <<>> ELSE Tail(args)

\* lines 77-79, fm being what formatMessage returned
AssertFailed(self, fm) ==
    IF ~fm.shouldNotThrow
    THEN Ran(ThrowError(fm.message, console["assert"].fn, self.options, StackIn(self)),
             <<>>, fm.ignore)
    ELSE Ran(Returned, <<>>, fm.ignore)

\* the mutant of AssertInterceptor that forwards an ignored message to the
\* original handler, as the error and warn interceptors do
AssertInterceptorForwards(self, args) ==
    LET fm == FormatMessage(self.options, Data(args)) IN
    IF Truthy(Condition(args)) THEN Ran(Returned, <<>>, self.options.ignore)
    ELSE IF fm.shouldNotThrow
    THEN Ran(Returned, <<Invocation(originalConsoleAssert.fn, <<Str(fm.message)>>)>>,
             fm.ignore)
    ELSE AssertFailed(self, fm)

\* the mutant of AssertInterceptor that does not look at the condition
AssertInterceptorUnconditional(self, args) ==
    AssertFailed(self, FormatMessage(self.options, Data(args)))

\* the arrow function of lines 74-81, (condition?, ...data) => {...}
AssertInterceptor(self, args) ==
    IF ~Truthy(Condition(args))
    THEN AssertFailed(self, FormatMessage(self.options, Data(args)))
    ELSE Ran(Returned, <<>>, self.options.ignore)

\* lines 99-103, fm being what formatMessage returned
ErrorDecided(self, fm) ==
    IF fm.shouldNotThrow
    THEN Ran(Returned, <<Invocation(originalConsoleError.fn, <<Str(fm.message)>>)>>,
             fm.ignore)
    ELSE Ran(ThrowError(fm.message, console["error"].fn, self.options, StackIn(self)),
             <<>>, fm.ignore)

\* the mutant of ErrorInterceptor that forwards the arguments as they came
ErrorInterceptorForwardsData(self, args) ==
    LET fm == FormatMessage(self.options, args) IN
    IF fm.shouldNotThrow
    THEN Ran(Returned, <<Invocation(originalConsoleError.fn, args)>>, fm.ignore)
    ELSE ErrorDecided(self, fm)

\* the arrow function of lines 97-104, (...data) => {...}
ErrorInterceptor(self, args) == ErrorDecided(self, FormatMessage(self.options, args))

\* the mutant of WarnDecided that forwards to the original handler of the
\* error channel
WarnDecidedToError(self, fm) ==
    IF fm.shouldNotThrow
    THEN Ran(Returned, <<Invocation(originalConsoleError.fn, <<Str(fm.message)>>)>>,
             fm.ignore)
    ELSE Ran(ThrowError(fm.message, console["warn"].fn, self.options, StackIn(self)),
             <<>>, fm.ignore)

\* lines 122-126, fm being what formatMessage returned
WarnDecided(self, fm) ==
    IF fm.shouldNotThrow
    THEN Ran(Returned, <<Invocation(originalConsoleWarn.fn, <<Str(fm.message)>>)>>,
             fm.ignore)
    ELSE Ran(ThrowError(fm.message, console["warn"].fn, self.options, StackIn(self)),
             <<>>, fm.ignore)

\* the arrow function of lines 120-127, (...data) => {...}
WarnInterceptor(self, args) == WarnDecided(self, FormatMessage(self.options, args))

\* a handler of the console as it was before the module was loaded: it is
\* handed the caller's arguments and returns
NativeCall(self, args) == Ran(Returned, <<Invocation(self.fn, args)>>, <<>>)

\* the call handler(...args)
Invoke(handler, args) ==
    CASE handler.fn.kind = "native" -> NativeCall(handler, args)
      [] handler.fn.kind = "interceptor" /\ handler.fn.ch = "assert" ->
            AssertInterceptor(handler, args)
      [] handler.fn.kind = "interceptor" /\ handler.fn.ch = "error" ->
            ErrorInterceptor(handler, args)
      [] handler.fn.kind = "interceptor" /\ handler.fn.ch = "warn" ->
            WarnInterceptor(handler, args)

\* the number of a new interceptor of a channel: interceptors are told apart
\* only while they can still be called, which the one in the channel's slot
\* no longer can once it is replaced, unless the caller kept it
NewId(ch) ==
    IF kept.fn.kind = "interceptor" /\ kept.fn.ch = ch /\ kept.fn.id = 1 THEN 2 ELSE 1

NewInterceptor(ch, options) == Handler(Fn("interceptor", ch, NewId(ch)), options)

Init ==
    /\ console = [ch \in Channels |-> NativeHandler(ch)]
    /\ originalConsoleAssert = NativeHandler("assert")
    /\ originalConsoleError = NativeHandler("error")
    /\ originalConsoleWarn = NativeHandler("warn")
    /\ kept = NoHandler
    /\ last = NoCall
    /\ installed = [ch \in Channels |-> NoHandler]

\* the mutant of throwOnConsoleAssert that captures the handler it replaces
throwOnConsoleAssertRecaptures(options) ==
    /\ originalConsoleAssert' = console["assert"]
    /\ console' = [console EXCEPT !["assert"] = NewInterceptor("assert", options)]
    /\ last' = Done("install", "assert", console["assert"])
    /\ installed' = [installed EXCEPT !["assert"] = NewInterceptor("assert", options)]
    /\ UNCHANGED <<originalConsoleError, originalConsoleWarn, kept>>

\* throwOnConsoleAssert(options), lines 73-82
throwOnConsoleAssert(options) ==
    /\ console' = [console EXCEPT !["assert"] = NewInterceptor("assert", options)]
    /\ last' = Done("install", "assert", console["assert"])
    /\ installed' = [installed EXCEPT !["assert"] = NewInterceptor("assert", options)]
    /\ UNCHANGED <<originals, kept>>

\* restoreConsoleAssert(), lines 87-89
restoreConsoleAssert ==
    /\ console' = [console EXCEPT !["assert"] = originalConsoleAssert]
    /\ last' = Done("restore", "assert", console["assert"])
    /\ installed' = [installed EXCEPT !["assert"] = NoHandler]
    /\ UNCHANGED <<originals, kept>>

\* the mutant of throwOnConsoleError that gives the new interceptor the options
\* of the interceptor it replaces
throwOnConsoleErrorKeepsOptions(options) ==
    /\ console' = [console EXCEPT !["error"] =
                      NewInterceptor("error",
                                     IF console["error"].fn.kind = "interceptor"
                                     THEN console["error"].options ELSE options)]
    /\ last' = Done("install", "error", console["error"])
    /\ installed' = [installed EXCEPT !["error"] = NewInterceptor("error", options)]
    /\ UNCHANGED <<originals, kept>>

\* throwOnConsoleError(options), lines 96-105
throwOnConsoleError(options) ==
    /\ console' = [console EXCEPT !["error"] = NewInterceptor("error", options)]
    /\ last' = Done("install", "error", console["error"])
    /\ installed' = [installed EXCEPT !["error"] = NewInterceptor("error", options)]
    /\ UNCHANGED <<originals, kept>>

\* the mutant of restoreConsoleError that swaps the slot and the constant
restoreConsoleErrorSwaps ==
    /\ console' = [console EXCEPT !["error"] = originalConsoleError]
    /\ originalConsoleError' = console["error"]
    /\ last' = Done("restore", "error", console["error"])
    /\ installed' = [installed EXCEPT !["error"] = NoHandler]
    /\ UNCHANGED <<originalConsoleAssert, originalConsoleWarn, kept>>

\* restoreConsoleError(), lines 110-112
restoreConsoleError ==
    /\ console' = [console EXCEPT !["error"] = originalConsoleError]
    /\ last' = Done("restore", "error", console["error"])
    /\ installed' = [installed EXCEPT !["error"] = NoHandler]
    /\ UNCHANGED <<originals, kept>>

\* the mutant of throwOnConsoleWarn that leaves an interceptor that is already
\* in the slot where it is
throwOnConsoleWarnKeepsFirst(options) ==
    /\ console' = IF console["warn"].fn.kind = "interceptor" THEN console
                  ELSE [console EXCEPT !["warn"] = NewInterceptor("warn", options)]
    /\ last' = Done("install", "warn", console["warn"])
    /\ installed' = [installed EXCEPT !["warn"] = NewInterceptor("warn", options)]
    /\ UNCHANGED <<originals, kept>>

\* throwOnConsoleWarn(options), lines 119-128
throwOnConsoleWarn(options) ==
    /\ console' = [console EXCEPT !["warn"] = NewInterceptor("warn", options)]
    /\ last' = Done("install", "warn", console["warn"])
    /\ installed' = [installed EXCEPT !["warn"] = NewInterceptor("warn", options)]
    /\ UNCHANGED <<originals, kept>>

\* the mutant of restoreConsoleWarn that leaves the slot as it is
restoreConsoleWarnKeeps ==
    /\ last' = Done("restore", "warn", console["warn"])
    /\ installed' = [installed EXCEPT !["warn"] = NoHandler]
    /\ UNCHANGED <<console, originals, kept>>

\* restoreConsoleWarn(), lines 133-135
restoreConsoleWarn ==
    /\ console' = [console EXCEPT !["warn"] = originalConsoleWarn]
    /\ last' = Done("restore", "warn", console["warn"])
    /\ installed' = [installed EXCEPT !["warn"] = NoHandler]
    /\ UNCHANGED <<originals, kept>>

\* `handler` as the call left it: the interceptor that ran has the ignore
\* rules of its options object as the call left them
After(handler, callee, ran) ==
    IF handler.fn = callee.fn /\ callee.fn.kind = "interceptor"
    THEN Handler(callee.fn, [callee.options EXCEPT !.ignore = ran.ignore])
    ELSE handler

\* the mutant of Ended in which an interceptor that throws puts the original
\* handler back into its slot first
EndedRestoredOnThrow(ch, via, callee, args, ran) ==
    /\ console' = [c \in Channels |->
                      IF ran.completion.thrown /\ c = ch THEN NativeHandler(c)
                      ELSE After(console[c], callee, ran)]
    /\ kept' = After(kept, callee, ran)
    /\ last' = [op |-> "call", ch |-> ch, via |-> via, callee |-> callee, args |-> args,
                completion |-> ran.completion, calls |-> ran.calls,
                replaced |-> NoHandler]
    /\ UNCHANGED <<originals, installed>>

\* the state after the call callee(...args), which did `ran`
Ended(ch, via, callee, args, ran) ==
    /\ console' = [c \in Channels |-> After(console[c], callee, ran)]
    /\ kept' = After(kept, callee, ran)
    /\ last' = [op |-> "call", ch |-> ch, via |-> via, callee |-> callee, args |-> args,
                completion |-> ran.completion, calls |-> ran.calls,
                replaced |-> NoHandler]
    /\ UNCHANGED <<originals, installed>>

\* the call callee(...args), made through a channel's slot or through `kept`
Call(ch, via, callee, args) == Ended(ch, via, callee, args, Invoke(callee, args))

\* console.assert(...args)
consoleAssert(args) == Call("assert", "slot", console["assert"], args)

\* console.error(...args)
consoleError(args) == Call("error", "slot", console["error"], args)

\* console.warn(...args)
consoleWarn(args) == Call("warn", "slot", console["warn"], args)

\* const f = console[ch], with an interceptor in the slot
KeepReference(ch) ==
    /\ console[ch].fn.kind = "interceptor"
    /\ kept' = console[ch]
    /\ last' = NoCall
    /\ UNCHANGED <<console, originals, installed>>

\* f(...args), whatever the slot holds by now
CallKept(args) ==
    /\ kept.fn.kind = "interceptor"
    /\ Call(kept.fn.ch, "kept", kept, args)

(***************************************************************************)
(* The inputs.                                                             *)
(***************************************************************************)
\* all the sequences over S of length at most n
SeqsUpTo(S, n) == UNION {[1..k -> S] : k \in 0..n}

S_boom == <<"b", "o", "o", "m">>
S_xEqD == <<"x", "=", "%", "d">>
S_xEq == <<"x", "=">>
S_oo == <<"o", "o">>
S_o == <<"o">>
S_zz == <<"z", "z">>
\* a line as React adds it to a message
S_frame ==
    <<" ", " ", " ", " ", "a", "t", " ", "F", " ", "(", "p", ":", "1", ":", "2", ")">>

\* the values a call is given
ArgPool == {Str(S_boom), Str(S_xEqD), Num(5), Bool(FALSE), Str(S_frame \o <<" ">> \o S_oo)}

ArgLists == SeqsUpTo(ArgPool, MaxArgs)

\* the options of the installs of Spec
OptionsPool ==
    { DefaultOptions,
      Options(TRUE, <<>>, "false"),
      Options(TRUE, <<StringRule(S_xEq)>>, "true"),
      Options(TRUE, <<RegExpRule(S_oo, FALSE, FALSE)>>, "undefined") }

\* the calling code goes on after the operation it made returned or threw
Continue ==
    /\ last.op # "none"
    /\ last' = NoCall
    /\ UNCHANGED <<console, originals, kept, installed>>

\* the calling code is not in a call of a channel
Idle == last.op = "none"

\* The calling code is single-threaded: it makes one call, sees how the call
\* ended and goes on.
Next ==
    \/ Idle /\ \E options \in OptionsPool : throwOnConsoleAssert(options)
    \/ Idle /\ restoreConsoleAssert
    \/ Idle /\ \E options \in OptionsPool : throwOnConsoleError(options)
    \/ Idle /\ restoreConsoleError
    \/ Idle /\ \E options \in OptionsPool : throwOnConsoleWarn(options)
    \/ Idle /\ restoreConsoleWarn
    \/ Idle /\ \E args \in ArgLists : consoleAssert(args)
    \/ Idle /\ \E args \in ArgLists : consoleError(args)
    \/ Idle /\ \E args \in ArgLists : consoleWarn(args)
    \/ Continue

Spec == Init /\ [][Next]_vars

\* the values a call of SpecKept is given
KeptArgPool == {Str(S_boom), Str(S_xEqD), Bool(FALSE)}

KeptArgLists == SeqsUpTo(KeptArgPool, MaxArgs)

\* the options of the installs of SpecKept
KeptOptionsPool ==
    {DefaultOptions, Options(TRUE, <<>>, "false"), Options(TRUE, <<StringRule(S_xEq)>>, "true")}

\* Spec with calling code that also keeps a reference to an interceptor and
\* calls it later
NextKept ==
    \/ Idle /\ \E options \in KeptOptionsPool : throwOnConsoleAssert(options)
    \/ Idle /\ restoreConsoleAssert
    \/ Idle /\ \E options \in KeptOptionsPool : throwOnConsoleError(options)
    \/ Idle /\ restoreConsoleError
    \/ Idle /\ \E options \in KeptOptionsPool : throwOnConsoleWarn(options)
    \/ Idle /\ restoreConsoleWarn
    \/ Idle /\ \E args \in KeptArgLists : consoleAssert(args)
    \/ Idle /\ \E args \in KeptArgLists : consoleError(args)
    \/ Idle /\ \E args \in KeptArgLists : consoleWarn(args)
    \/ Idle /\ \E ch \in Channels : KeepReference(ch)
    \/ Idle /\ \E args \in KeptArgLists : CallKept(args)
    \/ Continue

SpecKept == Init /\ [][NextKept]_vars

(***************************************************************************)
(* The ignore list: one interceptor at a time, installed with any ignore   *)
(* list of at most MaxRules rules.                                         *)
(***************************************************************************)
S_eq5 == <<"=", "5">>

\* the rules: two strings, and RegExps with none, one and both of the flags
RulePool ==
    { StringRule(S_xEq),
      StringRule(S_zz),
      RegExpRule(S_oo, FALSE, FALSE),
      RegExpRule(S_o, FALSE, TRUE),
      RegExpRule(S_eq5, TRUE, FALSE),
      RegExpRule(S_o, TRUE, TRUE) }

IgnoreLists == SeqsUpTo(RulePool, MaxRules)

IgnoreOptionsPool ==
    {DefaultOptions} \cup {Options(TRUE, ignore, "undefined") : ignore \in IgnoreLists}

\* the argument lists of SpecIgnore; they format to oo, x=5, oo 5, 5 oo, ...
IgnoreArgLists == SeqsUpTo({Str(S_oo), Str(S_xEqD), Num(5)}, MaxArgs)

AllOriginal == \A ch \in Channels : console[ch].fn.kind = "native"

NextIgnore ==
    \/ Idle /\ AllOriginal /\ \E options \in IgnoreOptionsPool : throwOnConsoleAssert(options)
    \/ Idle /\ restoreConsoleAssert
    \/ Idle /\ AllOriginal /\ \E options \in IgnoreOptionsPool : throwOnConsoleError(options)
    \/ Idle /\ restoreConsoleError
    \/ Idle /\ AllOriginal /\ \E options \in IgnoreOptionsPool : throwOnConsoleWarn(options)
    \/ Idle /\ restoreConsoleWarn
    \/ Idle /\ \E args \in IgnoreArgLists : consoleAssert(<<Bool(FALSE)>> \o args)
    \/ Idle /\ \E args \in IgnoreArgLists : consoleError(args)
    \/ Idle /\ \E args \in IgnoreArgLists : consoleWarn(args)
    \/ Continue

SpecIgnore == Init /\ [][NextIgnore]_vars

(***************************************************************************)
(* The messages: one argument of at most MaxLines lines, some of them with *)
(* text that the regular expression of line 34 matches, for one            *)
(* interceptor at a time.                                                  *)
(***************************************************************************)
\* a frame with text after it on its line
S_frameTail == S_frame \o <<" ", "x">>

\* a frame with text before it on its line
S_frameLead == <<"x">> \o S_frame

\* two frames on a line
S_twoFrames == S_frame \o S_frame

\* a line that has a line number and no column
S_noColumn == <<" ", " ", " ", " ", "a", "t", " ", "F", " ", "(", "p", ":", "1", ")">>

LinePool == {S_frame, S_frameTail, S_frameLead, S_twoFrames, S_noColumn, S_boom}

\* lines.join("\n")
RECURSIVE JoinLines(_)
JoinLines(lines) ==
    IF Len(lines) = 1 THEN lines[1]
    ELSE lines[1] \o <<"\n">> \o JoinLines(Tail(lines))

Messages == {JoinLines(lines) : lines \in SeqsUpTo(LinePool, MaxLines) \ {<<>>}}

TransformArgLists == {<<Str(message)>> : message \in Messages}

TransformOptionsPool == {DefaultOptions, Options(TRUE, <<StringRule(S_zz)>>, "true")}

NextTransform ==
    \/ Idle /\ AllOriginal /\ \E options \in TransformOptionsPool : throwOnConsoleAssert(options)
    \/ Idle /\ restoreConsoleAssert
    \/ Idle /\ AllOriginal /\ \E options \in TransformOptionsPool : throwOnConsoleError(options)
    \/ Idle /\ restoreConsoleError
    \/ Idle /\ AllOriginal /\ \E options \in TransformOptionsPool : throwOnConsoleWarn(options)
    \/ Idle /\ restoreConsoleWarn
    \/ Idle /\ \E args \in TransformArgLists : consoleAssert(<<Bool(FALSE)>> \o args)
    \/ Idle /\ \E args \in TransformArgLists : consoleError(args)
    \/ Idle /\ \E args \in TransformArgLists : consoleWarn(args)
    \/ Continue

SpecTransform == Init /\ [][NextTransform]_vars

(***************************************************************************)
(* The options object after the install: the interceptor holds the object  *)
(* that the calling code passed, not a copy of it, and the calling code    *)
(* can assign to its fields.  One interceptor at a time.                   *)
(***************************************************************************)
\* options.ignore = ...; options.fullStackTrace = ..., on the object passed to
\* the install whose interceptor is in the slot of channel ch
ChangeOptions(ch, options) ==
    /\ console[ch].fn.kind = "interceptor"
    /\ options # console[ch].options
    /\ console' = [console EXCEPT ![ch] = Handler(console[ch].fn, options)]
    /\ kept' = IF kept.fn = console[ch].fn THEN Handler(kept.fn, options) ELSE kept
    /\ last' = NoCall
    /\ UNCHANGED <<originals, installed>>

NextChange ==
    \/ Idle /\ AllOriginal /\ \E options \in OptionsPool : throwOnConsoleAssert(options)
    \/ Idle /\ restoreConsoleAssert
    \/ Idle /\ AllOriginal /\ \E options \in OptionsPool : throwOnConsoleError(options)
    \/ Idle /\ restoreConsoleError
    \/ Idle /\ AllOriginal /\ \E options \in OptionsPool : throwOnConsoleWarn(options)
    \/ Idle /\ restoreConsoleWarn
    \/ Idle /\ \E args \in ArgLists : consoleAssert(args)
    \/ Idle /\ \E args \in ArgLists : consoleError(args)
    \/ Idle /\ \E args \in ArgLists : consoleWarn(args)
    \/ Idle /\ \E ch \in Channels : \E options \in OptionsPool : ChangeOptions(ch, options)
    \/ Continue

SpecChange == Init /\ [][NextChange]_vars

(***************************************************************************)
(* The same call twice: the calling code makes the call it just made once  *)
(* more, with the ignore lists of SpecIgnore.                              *)
(***************************************************************************)
\* console[ch](...args) again, ch and args being those of the call just made
CallAgain ==
    /\ last.op = "call"
    /\ last.via = "slot"
    /\ Call(last.ch, "slot", console[last.ch], last.args)

NextRepeat ==
    \/ Idle /\ AllOriginal /\ \E options \in IgnoreOptionsPool : throwOnConsoleAssert(options)
    \/ Idle /\ restoreConsoleAssert
    \/ Idle /\ AllOriginal /\ \E options \in IgnoreOptionsPool : throwOnConsoleError(options)
    \/ Idle /\ restoreConsoleError
    \/ Idle /\ AllOriginal /\ \E options \in IgnoreOptionsPool : throwOnConsoleWarn(options)
    \/ Idle /\ restoreConsoleWarn
    \/ Idle /\ \E args \in IgnoreArgLists : consoleAssert(<<Bool(FALSE)>> \o args)
    \/ Idle /\ \E args \in IgnoreArgLists : consoleError(args)
    \/ Idle /\ \E args \in IgnoreArgLists : consoleWarn(args)
    \/ CallAgain
    \/ Continue

SpecRepeat == Init /\ [][NextRepeat]_vars

(***************************************************************************)
(* The claims.                                                             *)
(***************************************************************************)
\* the call that was just made went through the slot of its channel, which
\* held an interceptor
InterceptedCall ==
    /\ last.op = "call"
    /\ last.via = "slot"
    /\ last.callee.fn.kind = "interceptor"

\* the arguments of the call that was just made that are formatted: all of
\* them, and on the assert channel all but the condition
FormattedArgs == IF last.ch = "assert" THEN Data(last.args) ELSE last.args

\* the call that was just made is one that an interceptor formats: any call
\* of console.error and console.warn, a call of console.assert with a falsy
\* condition
FormattingCall ==
    /\ InterceptedCall
    /\ last.ch = "assert" => ~Truthy(Condition(last.args))

\* the ignore list of the options the interceptor was installed with, as it
\* was when the call was made
IgnoreList == IF last.callee.options.hasIgnore THEN last.callee.options.ignore ELSE <<>>

\* C1: after any number of installs on a channel, a restore leaves the
\* channel's slot holding the handler that was captured when the module was
\* loaded, and no install or restore ever reassigns the captured handlers.
C1_RestoreRevertsToCaptured ==
    /\ originalConsoleAssert = NativeHandler("assert")
    /\ originalConsoleError = NativeHandler("error")
    /\ originalConsoleWarn = NativeHandler("warn")
    /\ last.op = "restore" => console[last.ch] = NativeHandler(last.ch)

\* a restore that took an interceptor out of the slot
C1_Witness ==
    /\ last.op = "restore"
    /\ last.replaced.fn.kind = "interceptor"
    /\ last.replaced.options.hasIgnore
    /\ console[last.ch] = NativeHandler(last.ch)

\* C2: a restore leaves its channel with the original handler and throws
\* nothing, and a restore on a channel that already holds the original
\* handler changes nothing.
C2_RestoreIdempotent ==
    [][last'.op = "restore" =>
          /\ console'[last'.ch] = NativeHandler(last'.ch)
          /\ ~last'.completion.thrown
          /\ console[last'.ch] = NativeHandler(last'.ch) =>
                /\ console' = console
                /\ kept' = kept
                /\ originals' = originals]_vars

\* a restore on a channel that held the original handler already
C2_Witness ==
    /\ last.op = "restore"
    /\ last.replaced = NativeHandler(last.ch)
    /\ console[last.ch] = NativeHandler(last.ch)

\* C3 as stated: with an empty or absent ignore list, a call that an
\* interceptor formats throws an Error whose message equals the formatted
\* arguments.
C3_MessageEqualsFormatted ==
    (FormattingCall /\ IgnoreList = <<>>) =>
        /\ last.completion.thrown
        /\ last.completion.error.message = Format(FormattedArgs)

\* C3 as amended: the message is the formatted arguments with a `.` put after
\* every frame reference in it, so it equals the formatted arguments when
\* they hold no `    at ` at all.
C3_MessageIsMarkedFormatted ==
    (FormattingCall /\ IgnoreList = <<>>) =>
        /\ last.completion.thrown
        /\ last.completion.error.message = MarkFrames(Format(FormattedArgs))
        /\ ~Includes(Format(FormattedArgs), FramePrefix) =>
                last.completion.error.message = Format(FormattedArgs)

\* console.assert(false, "boom") with no ignore list threw "boom"
C3_Witness ==
    /\ FormattingCall
    /\ last.ch = "assert"
    /\ ~last.callee.options.hasIgnore
    /\ last.args = <<Bool(FALSE), Str(S_boom)>>
    /\ last.completion.thrown
    /\ last.completion.error.message = S_boom

\* the message the call that was just made formats
Message == Format(FormattedArgs)

\* a rule, as the options held it when the call was made, matches the message
\* m somewhere: a string that m contains, a RegExp whose source m contains
MatchesAnywhere(rule, m) == Includes(m, rule.src)

\* the same with a sticky RegExp matching where it is tried only: at its
\* lastIndex, which is index 0 for a global one
Matches(rule, m) ==
    IF rule.kind = "regexp" /\ rule.sticky
    THEN OccursAt(rule.src, m, IF rule.global THEN 0 ELSE rule.lastIndex)
    ELSE Includes(m, rule.src)

\* a rule of the ignore list matches the message of the call
Suppressed == \E k \in 1..Len(IgnoreList) : Matches(IgnoreList[k], Message)

C5_SuppressedIsForwarded ==
    (InterceptedCall /\ last.ch \in {"error", "warn"} /\ Suppressed) =>
        /\ ~last.completion.thrown
        /\ last.calls = <<Invocation(Native(last.ch), <<Str(Message)>>)>>

\* console.error("x=%d", 5) with ignore ["x="] called the original handler
\* with "x=5"
C5_Witness ==
    /\ InterceptedCall
    /\ last.ch = "error"
    /\ last.args = <<Str(S_xEqD), Num(5)>>
    /\ IgnoreList = <<StringRule(S_xEq)>>
    /\ ~last.completion.thrown
    /\ last.calls = <<Invocation(Native("error"), <<Str(<<"x", "=", "5">>)>>)>>

\* C6: a call of an intercepted console.assert with a truthy condition throws
\* nothing and calls no handler, whatever the options and the other arguments.
C6_TruthyAssertIsSilent ==
    (InterceptedCall /\ last.ch = "assert" /\ Truthy(Condition(last.args))) =>
        /\ ~last.completion.thrown
        /\ last.calls = <<>>

\* console.assert with a truthy condition and a message that no rule matches
C6_Witness ==
    /\ InterceptedCall
    /\ last.ch = "assert"
    /\ Len(last.args) = 2
    /\ Truthy(Condition(last.args))
    /\ ~Suppressed
    /\ ~last.completion.thrown
    /\ last.calls = <<>>

\* C7: a call of an intercepted console.assert with a falsy condition and a
\* message that an ignore rule matches throws nothing and calls no handler.
C7_SuppressedAssertIsSilent ==
    (InterceptedCall /\ last.ch = "assert" /\ ~Truthy(Condition(last.args)) /\ Suppressed) =>
        /\ ~last.completion.thrown
        /\ last.calls = <<>>

\* console.assert(false, "x=%d") with ignore ["x="]
C7_Witness ==
    /\ InterceptedCall
    /\ last.ch = "assert"
    /\ last.args = <<Bool(FALSE), Str(S_xEqD)>>
    /\ IgnoreList = <<StringRule(S_xEq)>>
    /\ ~last.completion.thrown
    /\ last.calls = <<>>

\* the call that was just made called the original handler of its channel
\* once, and nothing else, and returned
ForwardedOnce ==
    /\ ~last.completion.thrown
    /\ Len(last.calls) = 1
    /\ last.calls[1].fn = Native(last.ch)

\* the call that was just made threw and called no handler
ThrewOnly == last.completion.thrown /\ last.calls = <<>>

\* C10: a call of an intercepted console.error or console.warn either calls
\* the original handler once and returns, or throws and calls no handler:
\* one of the two, never both, never neither.
C10_ForwardOrThrow ==
    (InterceptedCall /\ last.ch \in {"error", "warn"}) =>
        /\ ForwardedOnce \/ ThrewOnly
        /\ ~(ForwardedOnce /\ ThrewOnly)
        /\ ForwardedOnce <=> Suppressed

\* a call of console.warn that no rule of a non-empty ignore list matched
C10_Witness ==
    /\ InterceptedCall
    /\ last.ch = "warn"
    /\ IgnoreList # <<>>
    /\ ~Suppressed
    /\ ThrewOnly

\* the stack trace of the failure that was just raised has a frame of fn
InStack(fn) ==
    \E k \in 1..Len(last.completion.error.stack) : last.completion.error.stack[k] = fn

\* an interceptor, called through its channel or through a reference that the
\* calling code kept, just raised a failure
Raised ==
    /\ last.op = "call"
    /\ last.callee.fn.kind = "interceptor"
    /\ last.completion.thrown

\* C9: the stack trace of a failure that an interceptor raised has a frame of
\* that interceptor when it was installed with fullStackTrace true; with
\* fullStackTrace false or left out it has neither a frame of the interceptor
\* nor a frame above it.
C9_StackTraceFollowsFlag ==
    Raised =>
        IF last.callee.options.fullStackTrace = "true"
        THEN InStack(last.callee.fn)
        ELSE ~InStack(last.callee.fn) /\ ~InStack(FnThrowError)

\* a failure raised with fullStackTrace left out, whose stack trace starts at
\* the code that called the channel
C9_Witness ==
    /\ Raised
    /\ last.via = "slot"
    /\ last.callee.options.fullStackTrace = "undefined"
    /\ last.completion.error.stack = <<FnCaller>>

\* the lines of a text, which "\n" separates
RECURSIVE SplitLines(_, _)
SplitLines(s, from) ==
    IF \E k \in from..(Len(s) - 1) : CharAt(s, k) = "\n"
    THEN <<Slice(s, from, SetMin({k \in from..(Len(s) - 1) : CharAt(s, k) = "\n"}))>>
         \o SplitLines(s, SetMin({k \in from..(Len(s) - 1) : CharAt(s, k) = "\n"}) + 1)
    ELSE <<Slice(s, from, Len(s))>>

\* the characters of s from index a to index b - 1 are digits, one at least
AllDigits(s, a, b) == a < b /\ \A k \in a..(b - 1) : IsDigit(CharAt(s, k))

\* the text of s from index a to index b - 1 is a frame: four spaces, `at `,
\* any text, a space, `(`, any text, `:`, digits, `:`, digits, `)`
IsFrameText(s, a, b) ==
    /\ OccursAt(FramePrefix, s, a)
    /\ b <= Len(s)
    /\ CharAt(s, b - 1) = ")"
    /\ \A k \in a..(b - 1) : ~IsLineTerminator(CharAt(s, k))
    /\ \E p \in {k \in (a + Len(FramePrefix))..(b - 1) :
                    CharAt(s, k) = " " /\ CharAt(s, k + 1) = "("} :
        \E c1 \in {k \in (p + 2)..(b - 1) : CharAt(s, k) = ":"} :
            \E c2 \in {k \in (c1 + 1)..(b - 1) : CharAt(s, k) = ":"} :
                AllDigits(s, c1 + 1, c2) /\ AllDigits(s, c2 + 1, b - 1)

\* the indices of a line where a frame starts
FrameStarts(line) ==
    {a \in 0..Len(line) : \E b \in a..Len(line) : IsFrameText(line, a, b)}

\* the indices after the frames of a line that start at index a
FrameEnds(line, a) == {b \in a..Len(line) : IsFrameText(line, a, b)}

\* the line has a frame in it
HasFrame(line) == FrameStarts(line) # {}

\* the line is a frame and nothing else
IsFrame(line) == IsFrameText(line, 0, Len(line))

\* the text with a `.` put in at index e
DotAt(text, e) == Slice(text, 0, e) \o <<".">> \o Slice(text, e, Len(text))

\* `dotted` is the line with a `.` at its end when the line has a frame in
\* it, and the line when it has none
DottedAtLineEnd(line, dotted) ==
    dotted = IF HasFrame(line) THEN line \o <<".">> ELSE line

\* `dotted` is the line with a `.` after the longest of the frames that start
\* first in the line, and the line when it has no frame
DottedAfterFrames(line, dotted) ==
    \E starts \in {FrameStarts(line)} :
        IF starts = {} THEN dotted = line
        ELSE \E ends \in {FrameEnds(line, SetMin(starts))} :
                dotted = DotAt(line, SetMax(ends))

\* every line of `dotted` is the line of `lines` at its place, with the `.`
\* that the message of a failure has at the end of a line with a frame
AllDottedAtLineEnd(lines, dotted) ==
    /\ Len(dotted) = Len(lines)
    /\ \A i \in 1..Len(lines) : DottedAtLineEnd(lines[i], dotted[i])

\* the same with the `.` after the frames of the line
AllDottedAfterFrames(lines, dotted) ==
    /\ Len(dotted) = Len(lines)
    /\ \A i \in 1..Len(lines) :
        \E line \in {lines[i]} :
            /\ DottedAfterFrames(line, dotted[i])
            /\ IsFrame(line) => dotted[i] = line \o <<".">>
            /\ ~HasFrame(line) => dotted[i] = line

CallOfRestored ==
    /\ last.op = "call"
    /\ last.via = "slot"
    /\ installed[last.ch] = NoHandler

\* C11: a call through the slot of a channel, made after a restore on that
\* channel and before the next install on it, throws nothing and is one call
\* of the original handler with the arguments of the caller as they came.
C11_RestoredCallsOriginal ==
    CallOfRestored =>
        /\ ~last.completion.thrown
        /\ last.calls = <<Invocation(Native(last.ch), last.args)>>

\* console.warn("x=%d", 5) after an install and a restore on the channel: the
\* calling code still holds the interceptor that the restore took out
C11_Witness ==
    /\ CallOfRestored
    /\ last.ch = "warn"
    /\ kept.fn.kind = "interceptor"
    /\ kept.fn.ch = "warn"
    /\ last.args = <<Str(S_xEqD), Bool(FALSE)>>
    /\ last.calls = <<Invocation(Native("warn"), <<Str(S_xEqD), Bool(FALSE)>>)>>

\* the state of a channel: Intercepted from an install on it to the next
\* restore on it, Original otherwise
ChannelState(ch) == IF installed[ch] = NoHandler THEN "Original" ELSE "Intercepted"

\* the slot of the channel holds what its state says: the handler captured at
\* module load, or the interceptor that the most recent install made
SlotFollowsState(ch) ==
    console[ch] = IF ChannelState(ch) = "Original" THEN NativeHandler(ch) ELSE installed[ch]

\* an install and a restore on the channel can be made, whatever state it is in
InstallAndRestoreEnabled ==
    /\ ENABLED (\E options \in OptionsPool : throwOnConsoleAssert(options))
    /\ ENABLED restoreConsoleAssert
    /\ ENABLED (\E options \in OptionsPool : throwOnConsoleError(options))
    /\ ENABLED restoreConsoleError
    /\ ENABLED (\E options \in OptionsPool : throwOnConsoleWarn(options))
    /\ ENABLED restoreConsoleWarn

\* C12: every channel starts Original, an install leaves it Intercepted and a
\* restore leaves it Original, from either state; so the slot of a channel
\* always holds the original handler or the interceptor of the most recent
\* install since the last restore, and both operations can always be made.
C12_TwoStateMachine ==
    /\ \A ch \in Channels : SlotFollowsState(ch)
    /\ InstallAndRestoreEnabled

\* an install on a channel that was Intercepted, with other options: the slot
\* holds the new interceptor
C12_Witness ==
    /\ last.op = "install"
    /\ last.replaced.fn.kind = "interceptor"
    /\ last.replaced.options # installed[last.ch].options
    /\ ChannelState(last.ch) = "Intercepted"
    /\ console[last.ch] = installed[last.ch]

\* the ignore rules of options
RulesOf(options) == IF options.hasIgnore THEN options.ignore ELSE <<>>

\* a rule of options matches the message of the call that was just made
SuppressedBy(options) ==
    \E k \in 1..Len(RulesOf(options)) : Matches(RulesOf(options)[k], Message)

\* the call that was just made went as options say: it threw when it is a call
\* that is formatted and no rule matches its message, with the stack trace that
\* fullStackTrace asks for; a call of console.error or console.warn that a
\* rule matches was one call of the original handler with the message
DecidedBy(options) ==
    /\ last.completion.thrown <=> (FormattingCall /\ ~SuppressedBy(options))
    /\ (FormattingCall /\ SuppressedBy(options) /\ last.ch \in {"error", "warn"})
           => last.calls = <<Invocation(Native(last.ch), <<Str(Message)>>)>>
    /\ last.completion.thrown
           => (InStack(last.callee.fn) <=> options.fullStackTrace = "true")

\* C13: a call through the slot of a channel is decided by the options of the
\* most recent install on the channel alone, also when that install replaced
\* the interceptor of an install before it: the rules and the fullStackTrace
\* are those of the second install, and a suppressed call goes to the original
\* handler, not to the first interceptor.
C13_SecondInstallDecides ==
    InterceptedCall => DecidedBy(installed[last.ch].options)

\* install(o1), with a rule that matches x=, then install(o2) without rules
\* and without fullStackTrace on console.error, then console.error("x=%d"):
\* the call threw, and the stack trace has no frame of the interceptor.  The
\* calling code holds the first interceptor.
C13_Witness ==
    /\ InterceptedCall
    /\ last.ch = "error"
    /\ kept.fn.kind = "interceptor"
    /\ kept.fn.ch = "error"
    /\ kept.fn # last.callee.fn
    /\ kept.options = Options(TRUE, <<StringRule(S_xEq)>>, "true")
    /\ installed["error"].options = DefaultOptions
    /\ last.args = <<Str(S_xEqD)>>
    /\ last.completion.thrown
    /\ ~InStack(last.callee.fn)

\* C14: when an interceptor raises a failure, the function whose frames it
\* has left out of the stack trace is that interceptor itself, also when it
\* was called through a reference that the calling code kept from before a
\* later install or restore.  (With fullStackTrace true no function is handed
\* to Error.captureStackTrace, and the one handed to throwError is not seen.)
C14_ExcludedIsExecutingInterceptor ==
    (Raised /\ last.callee.options.fullStackTrace # "true") =>
        last.completion.excluded = last.callee.fn

\* C15: for an installed interceptor, whether a call throws and whether the
\* stack trace of the failure is the full one depend only on the ignore rules
\* and the fullStackTrace that the options had when they were passed to the
\* install, whatever the calling code assigned to the options since.
C15_OptionsAsInstalledDecide ==
    InterceptedCall =>
        /\ last.completion.thrown
               <=> (FormattingCall /\ ~SuppressedBy(installed[last.ch].options))
        /\ last.completion.thrown
               => (InStack(last.callee.fn)
                       <=> installed[last.ch].options.fullStackTrace = "true")

\* the handler that the module captured for channel ch when it was loaded
OriginalOf(ch) ==
    CASE ch = "assert" -> originalConsoleAssert
      [] ch = "error" -> originalConsoleError
      [] ch = "warn" -> originalConsoleWarn

\* C16: an install or a restore on one channel leaves the slots and the
\* captured handlers of the other two channels as they were, and an
\* interceptor of console.error or console.warn calls no handler but the
\* original one of its own channel.
C16_ChannelsIndependent ==
    [][/\ last'.op \in {"install", "restore"} =>
            \A ch \in Channels \ {last'.ch} :
                /\ console'[ch] = console[ch]
                /\ OriginalOf(ch)' = OriginalOf(ch)
       /\ (last'.op = "call" /\ last'.callee.fn.kind = "interceptor"
               /\ last'.ch \in {"error", "warn"}) =>
            \A k \in 1..Len(last'.calls) : last'.calls[k].fn = Native(last'.ch)]_vars

\* a suppressed console.warn("x=%d", 5), forwarded to the original handler of
\* console.warn, with another interceptor in the slot of console.error
C16_Witness ==
    /\ InterceptedCall
    /\ last.ch = "warn"
    /\ last.args = <<Str(S_xEqD), Num(5)>>
    /\ console["error"].fn.kind = "interceptor"
    /\ console["error"].options # console["warn"].options
    /\ ~last.completion.thrown
    /\ last.calls = <<Invocation(Native("warn"), <<Str(<<"x", "=", "5">>)>>)>>

\* C17: a call of an interceptor, whether it throws, is suppressed or is a
\* console.assert with a truthy condition, leaves the function in each of the
\* three slots and the three captured handlers as they were; the channel is
\* still Intercepted after a failure, and only an install or a restore puts
\* another function into a slot.
C17_CallsLeaveSlots ==
    [][/\ (last'.op = "call" /\ last'.callee.fn.kind = "interceptor") =>
            /\ \A ch \in Channels : console'[ch].fn = console[ch].fn
            /\ originals' = originals
            /\ console[last'.ch].fn.kind = "interceptor"
                   => console'[last'.ch].fn.kind = "interceptor"
       /\ (\E ch \in Channels : console'[ch].fn # console[ch].fn)
            => last'.op \in {"install", "restore"}]_vars

\* a call through the slot that threw: the slot still holds the interceptor
\* that threw
C17_Witness ==
    /\ InterceptedCall
    /\ last.completion.thrown
    /\ ChannelState(last.ch) = "Intercepted"
    /\ console[last.ch].fn = last.callee.fn

\* C18: formatMessage is a pure function of the ignore rules and of the
\* arguments, so a call of an installed interceptor and the same call made
\* once more end the same way: both throw, with the same message, or both are
\* suppressed, calling the same handlers.
C18_IdenticalCallsAgree ==
    [][(/\ last.op = "call"
        /\ last.callee.fn.kind = "interceptor"
        /\ last'.op = "call"
        /\ last'.callee.fn = last.callee.fn
        /\ last'.args = last.args) =>
            /\ last'.completion.thrown = last.completion.thrown
            /\ last'.completion.error.message = last.completion.error.message
            /\ last'.calls = last.calls]_vars

====
